---- MODULE Spec2Model ----
(***************************************************************************)
(* cargo-builder: a wrapper around `cargo build` that filters the JSON     *)
(* message stream to errors (optionally warnings), prints them, mirrors    *)
(* them to a log file, and returns the child's exit code.                  *)
(*                                                                         *)
(* Texts are sequences of atoms (one atom per character; the two header    *)
(* lines of the log file are one atom each).  A stdout line is a record    *)
(* that abstracts the JSON value the line parses to.                       *)
(***************************************************************************)
EXTENDS Integers, Sequences, FiniteSets, TLC

\* ------------------------------------------------------------------ bounds
MaxOut == 2          \* stdout lines the child writes at most
MaxErr == 3          \* stderr lines the child writes at most
OutCap == 1          \* lines the stdout pipe holds before a write blocks
ErrCap == 2          \* lines the stderr pipe holds before a write blocks
MaxLogCalls == 3     \* log_error calls on a stand-alone Logger
MaxText == 6         \* length of the texts a function is applied to on its own
MaxArgs == 4         \* length of the command lines given to separate_arguments

\* ------------------------------------------------------------ basic values
None == <<>>
Some(x) == <<x>>
IsSome(o) == Len(o) = 1
Unwrap(o) == o[1]
UnwrapOr(o, d) == IF IsSome(o) THEN o[1] ELSE d

ESC == "ESC"
NL == "\n"

ColorChoice == {"Auto", "Never", "Always"}

\* Rendered texts the compiler may produce: one with colour escapes (and an
\* escape the stripper does not recognise), one plain.
TextA == <<ESC, "[", "3", "1", "m", "a", ESC, "[", "0", "m">>
TextB == <<"b", ESC, "[", "2", "J">>

\* ------------------------------------------------- diagnostics.rs: colours
AnsiParams == {"0", "1", "2", "3", ";"}
AnsiTerminators == {"m", "G", "K", "H"}

RECURSIVE SkipParams(_, _)
SkipParams(s, j) ==
    IF j <= Len(s) /\ s[j] \in AnsiParams THEN SkipParams(s, j + 1) ELSE j

\* The index just after the match of \x1b\[[0-9;]*[mGKH] starting at i, or 0.
AnsiMatchEnd(s, i) ==
    IF i + 1 <= Len(s) /\ s[i] = ESC /\ s[i + 1] = "["
    THEN LET j == SkipParams(s, i + 2)
         IN  IF j <= Len(s) /\ s[j] \in AnsiTerminators THEN j + 1 ELSE 0
    ELSE 0

RECURSIVE StripFrom(_, _)
StripFrom(s, i) ==
    IF i > Len(s) THEN <<>>
    ELSE LET e == AnsiMatchEnd(s, i)
         IN  IF e # 0 THEN StripFrom(s, e)
             ELSE <<s[i]>> \o StripFrom(s, i + 1)

strip_ansi_codes(text) == StripFrom(text, 1)

is_terminal(e) == e.tty

\* A value of an environment variable that is not valid Unicode.
NotUnicode == "\\xff"

\* std::env::var on a variable that is unset (None) or set (Some(value)):
\* Ok(value) is Some(value); Err (not present, or not valid Unicode) is None.
env_var(value) ==
    IF IsSome(value) /\ Unwrap(value) # NotUnicode THEN value ELSE None

should_use_color(e) ==
    IF IsSome(env_var(e.NO_COLOR)) /\ Unwrap(env_var(e.NO_COLOR)) # "" THEN FALSE
    ELSE IF IsSome(env_var(e.CARGO_TERM_COLOR))
         THEN CASE Unwrap(env_var(e.CARGO_TERM_COLOR)) = "always" -> TRUE
                [] Unwrap(env_var(e.CARGO_TERM_COLOR)) = "never" -> FALSE
                [] OTHER -> is_terminal(e)
    ELSE IF IsSome(env_var(e.TERM)) /\ Unwrap(env_var(e.TERM)) = "dumb" THEN FALSE
    ELSE is_terminal(e)

format_for_terminal(rendered, cfg, e) ==
    CASE cfg.terminal_color = "Never" -> strip_ansi_codes(rendered)
      [] cfg.terminal_color = "Always" -> rendered
      [] cfg.terminal_color = "Auto" ->
            IF should_use_color(e) THEN rendered ELSE strip_ansi_codes(rendered)

\* Faulty variant: Auto keeps the colours in the log.
format_for_log_AutoKeeps(rendered, cfg) ==
    CASE cfg.log_color = "Always" -> rendered
      [] cfg.log_color = "Never" -> strip_ansi_codes(rendered)
      [] cfg.log_color = "Auto" -> rendered

format_for_log(rendered, cfg) ==
    CASE cfg.log_color = "Always" -> rendered
      [] cfg.log_color = "Never" -> strip_ansi_codes(rendered)
      [] cfg.log_color = "Auto" -> strip_ansi_codes(rendered)

\* ------------------------------------------------- diagnostics.rs: decoder
\* JSON values as far as the decoder tells them apart: a string, a boolean,
\* the message object, anything else (a number, null, an array).  A field of
\* an object is None when the object lacks it.
JStr(s) == [t |-> "string", v |-> s]
JBool(b) == [t |-> "bool", v |-> b]
JOther == [t |-> "other"]
JMessage(level, rendered) == [t |-> "object", level |-> level, rendered |-> rendered]

\* Value::get on the message, Value::as_str, Value::as_bool.
get(value, key) == IF value.t = "object" THEN value[key] ELSE None
as_str(o) == IF IsSome(o) /\ Unwrap(o).t = "string" THEN Some(Unwrap(o).v) ELSE None
as_bool(o) == IF IsSome(o) /\ Unwrap(o).t = "bool" THEN Some(Unwrap(o).v) ELSE None

\* A line: kind "invalid" (not UTF-8, the read fails), "blank" (empty after
\* trim), "text" (not JSON) or "json" with the fields the decoder looks at.
JsonObject(reason, message, success) ==
    [kind |-> "json", reason |-> reason, message |-> message, success |-> success]

\* Lines as cargo writes them: the reason a string, level and rendered
\* strings and success a boolean where present.
Typed(t, o) == IF IsSome(o) THEN Some([t |-> t, v |-> Unwrap(o)]) ELSE None
JsonLine(reason, message, success) ==
    JsonObject(Some(JStr(reason)), message, Typed("bool", success))
Message(level, rendered) ==
    Some(JMessage(Typed("string", level), Typed("string", rendered)))

ParseErr == [tag |-> "Err"]
ParseNone == [tag |-> "None"]
CompilerMessage(level, rendered) ==
    [tag |-> "CompilerMessage", level |-> level, rendered |-> rendered]
BuildFinished(success) == [tag |-> "BuildFinished", success |-> success]

\* Lines 28-61: what a line that parsed as JSON decodes to.
decode_json(line) ==
    LET reason == UnwrapOr(as_str(line.reason), "")
    IN  CASE reason = "compiler-message" ->
               IF ~IsSome(line.message) THEN ParseErr
               ELSE LET message == Unwrap(line.message)
                        level == UnwrapOr(as_str(get(message, "level")), "unknown")
                        rendered == UnwrapOr(as_str(get(message, "rendered")), <<>>)
                    IN  IF rendered # <<>> THEN CompilerMessage(level, rendered)
                        ELSE ParseNone
          [] reason = "build-finished" ->
               BuildFinished(UnwrapOr(as_bool(line.success), FALSE))
          [] OTHER -> ParseNone

HasReason(line, reason) == line.kind = "json" /\ as_str(line.reason) = Some(reason)

\* Faulty variants: a compiler-message without a message object is ignored;
\* a line that is not JSON is an error; a build-finished without a success
\* flag counts as a success; a compiler-message without a text is kept.
parse_cargo_message_Lenient(line) ==
    IF line.kind # "json" THEN ParseNone
    ELSE IF HasReason(line, "compiler-message") /\ ~IsSome(line.message) THEN ParseNone
    ELSE decode_json(line)
parse_cargo_message_Strict(line) ==
    IF line.kind = "blank" THEN ParseNone
    ELSE IF line.kind # "json" THEN ParseErr
    ELSE decode_json(line)
parse_cargo_message_DefaultTrue(line) ==
    IF line.kind # "json" THEN ParseNone
    ELSE IF HasReason(line, "build-finished")
    THEN BuildFinished(UnwrapOr(as_bool(line.success), TRUE))
    ELSE decode_json(line)
parse_cargo_message_KeepEmpty(line) ==
    IF line.kind # "json" THEN ParseNone
    ELSE IF HasReason(line, "compiler-message") /\ IsSome(line.message)
    THEN LET message == Unwrap(line.message)
         IN  CompilerMessage(UnwrapOr(as_str(get(message, "level")), "unknown"),
                             UnwrapOr(as_str(get(message, "rendered")), <<>>))
    ELSE decode_json(line)

parse_cargo_message(line) ==
    IF line.kind = "blank" THEN ParseNone
    ELSE IF line.kind # "json" THEN ParseNone
    ELSE decode_json(line)

\* ------------------------------------------------------ logging.rs: Logger
HeaderTitle == "cargo-builder error log"
HeaderRule == "======================"

writeln(content, s) == content \o s \o <<NL>>

NewLogger == [file |-> "None", has_written |-> FALSE]

\* Faulty variant: the constructor opens (and truncates) the file.
Logger_new_Eager(f) ==
    [fs |-> [f EXCEPT !.exists = TRUE, !.content = <<>>],
     logger |-> [file |-> "Some", has_written |-> FALSE]]

\* Logger::new: the Logger it returns, and the file system after it.
Logger_new(f) == [fs |-> f, logger |-> NewLogger]

\* The places where one log_error call can fail: creating the parent
\* directory (only if it is missing), opening the file, each writeln!.  A
\* failing writeln! is taken to write nothing; File::flush does nothing and
\* cannot fail.
InitFaults == {"mkdir", "open", "hdr1", "hdr2", "hdr3"}
BodyFaults == {"body", "sep"}
Faults(f, lg) ==
    {"none"} \cup BodyFaults
    \cup (IF lg.file = "None"
          THEN (InitFaults \ (IF f.dir THEN {"mkdir"} ELSE {}))
          ELSE {})

ensure_parent_dir(f) == IF ~f.dir THEN [f EXCEPT !.dir = TRUE] ELSE f

Result(f, lg, ok) == [fs |-> f, logger |-> lg, ok |-> ok]

\* Faulty variant: the file is opened without truncate, so what an earlier
\* run left stays in front of the header.
log_error_NoTruncate(f, lg, cfg, rendered, fault) ==
    LET first == lg.file = "None"
        f1 == IF first THEN ensure_parent_dir(f) ELSE f
        f2 == IF first THEN [f1 EXCEPT !.exists = TRUE] ELSE f1
        lg2 == IF first THEN [lg EXCEPT !.file = "Some"] ELSE lg
        f3 == IF first THEN [f2 EXCEPT !.content = writeln(@, <<HeaderTitle>>)] ELSE f2
        f4 == IF first THEN [f3 EXCEPT !.content = writeln(@, <<HeaderRule>>)] ELSE f3
        f5 == IF first THEN [f4 EXCEPT !.content = writeln(@, <<>>)] ELSE f4
        f6 == [f5 EXCEPT !.content = writeln(@, format_for_log(rendered, cfg))]
        f7 == [f6 EXCEPT !.content = writeln(@, <<>>)]
    IN  CASE fault = "mkdir" -> Result(f, lg, FALSE)
          [] fault = "open" -> Result(f1, lg, FALSE)
          [] fault = "hdr1" -> Result(f2, lg2, FALSE)
          [] fault = "hdr2" -> Result(f3, lg2, FALSE)
          [] fault = "hdr3" -> Result(f4, lg2, FALSE)
          [] fault = "body" -> Result(f5, lg2, FALSE)
          [] fault = "sep" -> Result(f6, lg2, FALSE)
          [] OTHER -> Result(f7, [lg2 EXCEPT !.has_written = TRUE], TRUE)

\* Logger::log_error with the fault (or "none") the file system answers with:
\* the file system and Logger after the call, and whether it returned Ok.
log_error(f, lg, cfg, rendered, fault) ==
    LET first == lg.file = "None"
        f1 == IF first THEN ensure_parent_dir(f) ELSE f
        f2 == IF first THEN [f1 EXCEPT !.exists = TRUE, !.content = <<>>] ELSE f1
        lg2 == IF first THEN [lg EXCEPT !.file = "Some"] ELSE lg
        f3 == IF first THEN [f2 EXCEPT !.content = writeln(@, <<HeaderTitle>>)] ELSE f2
        f4 == IF first THEN [f3 EXCEPT !.content = writeln(@, <<HeaderRule>>)] ELSE f3
        f5 == IF first THEN [f4 EXCEPT !.content = writeln(@, <<>>)] ELSE f4
        log_content == format_for_log(rendered, cfg)
        f6 == [f5 EXCEPT !.content = writeln(@, log_content)]
        f7 == [f6 EXCEPT !.content = writeln(@, <<>>)]
    IN  CASE fault = "mkdir" -> Result(f, lg, FALSE)
          [] fault = "open" -> Result(f1, lg, FALSE)
          [] fault = "hdr1" -> Result(f2, lg2, FALSE)
          [] fault = "hdr2" -> Result(f3, lg2, FALSE)
          [] fault = "hdr3" -> Result(f4, lg2, FALSE)
          [] fault = "body" -> Result(f5, lg2, FALSE)
          [] fault = "sep" -> Result(f6, lg2, FALSE)
          [] OTHER -> Result(f7, [lg2 EXCEPT !.has_written = TRUE], TRUE)

\* Faulty variants: the keep-on-success policy is not consulted; has_written
\* is not consulted.
ShouldDelete_IgnoreKeep(build_success, cfg, lg) ==
    build_success /\ lg.has_written
ShouldDelete_Unwritten(build_success, cfg, lg) ==
    build_success /\ ~cfg.log_on_success

\* The condition under which Logger::finalize removes the file.
ShouldDelete(build_success, cfg, lg) ==
    build_success /\ ~cfg.log_on_success /\ lg.has_written

\* Logger::finalize: the file system after it (remove_file is taken to
\* succeed).
finalize(f, lg, cfg, build_success) ==
    IF ShouldDelete(build_success, cfg, lg)
    THEN IF f.exists THEN [f EXCEPT !.exists = FALSE, !.content = <<>>] ELSE f
    ELSE f

\* ------------------------------------------------------ runner.rs: helpers
\* The variables a Command can be given for the child, and a Command that
\* was given none: the child inherits every variable of the wrapper that
\* the Command does not set.
EnvNames == {"RUSTFLAGS", "CARGO_TERM_COLOR", "NO_COLOR", "TERM"}
NoEnvs == [name \in EnvNames |-> None]

\* The text of a variable's value: empty, or the value as one atom.
TextOf(value) == IF value = "" THEN <<>> ELSE <<value>>

\* setup_environment: the variables the Command has been given after it, from
\* those it had been given before and the wrapper's own RUSTFLAGS.
setup_environment(cmd, cfg, RUSTFLAGS) ==
    LET rustflags == TextOf(UnwrapOr(env_var(RUSTFLAGS), ""))
        spaced == IF rustflags # <<>> THEN Append(rustflags, " ") ELSE rustflags
        c1 == IF ~cfg.include_warnings
              THEN [cmd EXCEPT !["RUSTFLAGS"] = Some(Append(spaced, "-Awarnings"))]
              ELSE cmd
    IN  CASE cfg.terminal_color = "Always" ->
                [c1 EXCEPT !["CARGO_TERM_COLOR"] = Some(<<"always">>)]
          [] cfg.terminal_color = "Never" ->
                [c1 EXCEPT !["CARGO_TERM_COLOR"] = Some(<<"never">>)]
          [] cfg.terminal_color = "Auto" -> c1

\* Faulty variant: the exit code is normalised to 0/1.
ExitCode_Normalised(status) == IF status = Some(0) THEN 0 ELSE 1

\* The exit code of an exit status (None when killed by a signal).
ExitCode(status) == UnwrapOr(status, 1)

FinalSuccess(recorded, code) == UnwrapOr(recorded, code = 0)

\* Faulty variant: the first BuildFinished wins.
RecordBuildFinished_FirstWins(recorded, success) ==
    IF IsSome(recorded) THEN recorded ELSE Some(success)

RecordBuildFinished(recorded, success) == Some(success)

\* Faulty variants: quiet suppresses the printing of errors; warnings are
\* logged whatever keep-on-success is.
Route_QuietErrors(level, cfg) ==
    CASE level = "error" -> [print |-> ~cfg.quiet, log |-> TRUE, error |-> TRUE]
      [] level = "warning" /\ cfg.include_warnings ->
            [print |-> TRUE, log |-> cfg.log_on_success, error |-> FALSE]
      [] OTHER -> [print |-> FALSE, log |-> FALSE, error |-> FALSE]
Route_WarningsLogged(level, cfg) ==
    CASE level = "error" -> [print |-> TRUE, log |-> TRUE, error |-> TRUE]
      [] level = "warning" /\ cfg.include_warnings ->
            [print |-> TRUE, log |-> TRUE, error |-> FALSE]
      [] OTHER -> [print |-> FALSE, log |-> FALSE, error |-> FALSE]

\* Faulty variant: an error-level message is logged without being marked.
Route_ErrorUnmarked(level, cfg) ==
    CASE level = "error" -> [print |-> TRUE, log |-> TRUE, error |-> FALSE]
      [] level = "warning" /\ cfg.include_warnings ->
            [print |-> TRUE, log |-> cfg.log_on_success, error |-> FALSE]
      [] OTHER -> [print |-> FALSE, log |-> FALSE, error |-> FALSE]

\* What the stdout loop does with a CompilerMessage of this level.
Route(level, cfg) ==
    CASE level = "error" -> [print |-> TRUE, log |-> TRUE, error |-> TRUE]
      [] level = "warning" /\ cfg.include_warnings ->
            [print |-> TRUE, log |-> cfg.log_on_success, error |-> FALSE]
      [] OTHER -> [print |-> FALSE, log |-> FALSE, error |-> FALSE]

\* Faulty variant: the fallback does not look at has_errors.
NeedFallback_IgnoreErrors(success, errors, captured) ==
    ~success /\ captured # <<>>

NeedFallback(success, errors, captured) ==
    ~success /\ ~errors /\ captured # <<>>

RECURSIVE Join(_)
Join(lines) ==
    IF lines = <<>> THEN <<>>
    ELSE IF Len(lines) = 1 THEN lines[1]
    ELSE lines[1] \o <<NL>> \o Join(Tail(lines))

\* Faulty variant: finalize is told the build result alone.
FinalizeArg_SuccessOnly(success, errors) == success

FinalizeArg(success, errors) == success /\ ~errors

\* ------------------------------------------------------------------ inputs
Texts == {TextA, TextB}

LErrA == JsonLine("compiler-message", Message(Some("error"), Some(TextA)), None)
LErrB == JsonLine("compiler-message", Message(Some("error"), Some(TextB)), None)
LWarnA == JsonLine("compiler-message", Message(Some("warning"), Some(TextA)), None)
LOtherB == JsonLine("compiler-message", Message(None, Some(TextB)), None)
LErrEmpty == JsonLine("compiler-message", Message(Some("error"), None), None)
LNoMessage == JsonLine("compiler-message", None, None)
LFinishedOk == JsonLine("build-finished", None, Some(TRUE))
LFinishedFail == JsonLine("build-finished", None, Some(FALSE))
\* build-finished without a success flag, and with one that is not a boolean.
LFinishedBare == JsonLine("build-finished", None, None)
LFinishedNum == JsonObject(Some(JStr("build-finished")), None, Some(JOther))
LText == [kind |-> "text"]
LInvalid == [kind |-> "invalid"]
\* Lines the decoder has to ignore: blank; JSON whose reason is missing, not
\* a string, or not one of the two (each with an error message and a success
\* flag that must not be looked at).
LBlank == [kind |-> "blank"]
LNoReason == JsonObject(None, Message(Some("error"), Some(TextA)), Some(JBool(TRUE)))
LNumReason == JsonObject(Some(JOther), Message(Some("error"), Some(TextA)), Some(JBool(TRUE)))
LArtifact ==
    JsonObject(Some(JStr("compiler-artifact")), Message(Some("error"), Some(TextA)),
               Some(JBool(TRUE)))
IgnoredLines == {LText, LBlank, LNoReason, LNumReason, LArtifact}
\* Compiler messages without a text: rendered an empty string, null, absent.
LWarnBlank == JsonLine("compiler-message", Message(Some("warning"), Some(<<>>)), None)
LErrNull ==
    JsonObject(Some(JStr("compiler-message")),
               Some(JMessage(Some(JStr("error")), Some(JOther))), None)
NoTextLines == {LErrEmpty, LWarnBlank, LErrNull}

StdoutLines ==
    {LErrA, LErrB, LWarnA, LOtherB, LNoMessage, LFinishedOk, LFinishedFail,
     LFinishedBare, LFinishedNum, LInvalid}
    \cup IgnoredLines \cup NoTextLines

\* The n-th stderr line the child writes is a text of n atoms, or "invalid"
\* (not UTF-8).
ErrLine(n) == [i \in 1..n |-> "l"]
InvalidLine == <<"invalid">>
StderrLines(n) == {ErrLine(n), InvalidLine}

\* Exit statuses: a code, or None (killed by a signal).
ExitStatuses == {Some(0), Some(101), None}

Configs ==
    [log_on_success : BOOLEAN, log_color : ColorChoice,
     terminal_color : ColorChoice, include_warnings : BOOLEAN,
     show_build_output : BOOLEAN, quiet : BOOLEAN]

Env(no_color, cargo_term_color, term, tty) ==
    [NO_COLOR |-> no_color, CARGO_TERM_COLOR |-> cargo_term_color,
     TERM |-> term, tty |-> tty]

\* Environments of a run: one where should_use_color is true, one where it
\* is false.  Only terminal_color Auto consults the environment.
ColorEnv == Env(None, None, Some("xterm"), TRUE)
NoColorEnv == Env(Some("1"), None, None, TRUE)
Envs(cfg) == IF cfg.terminal_color = "Auto" THEN {ColorEnv, NoColorEnv} ELSE {ColorEnv}

\* The log path before the run: no directory, no file, or a file an earlier
\* run left.
OldLog == <<HeaderTitle, NL, HeaderRule, NL, NL, "o", NL, NL>>
FileSystems ==
    {[dir |-> FALSE, exists |-> FALSE, content |-> <<>>],
     [dir |-> TRUE, exists |-> FALSE, content |-> <<>>],
     [dir |-> TRUE, exists |-> TRUE, content |-> OldLog]}

\* ------------------------------------------------------------------- state
VARIABLES
    config,           \* Config, fixed for the run
    env,              \* the process environment and whether stderr is a tty
    fs,               \* the log path: parent directory, file, content
    fs0,              \* fs when the run (or the Logger) started
    logger,           \* Logger.file (None/Some) and Logger.has_written
    pc,               \* where run_build (or the Logger's owner) is
    child,            \* the cargo process
    stdout_pipe,      \* lines written by the child and not yet read
    stderr_pipe,
    build_success,    \* Option<bool>
    has_errors,
    captured_stderr,
    exit_code,        \* Option<i32>, set by the wait
    ret,              \* Option<i32>, the value run_build returns
    err,              \* Option<context>, the error run_build returns
    printed,          \* what the wrapper wrote to its stderr, in order
    log_calls,        \* the log_error calls made, in order
    decoded,          \* the messages decoded from stdout, in order
    finalize_calls,   \* the arguments of the Logger::finalize calls
    input,            \* the arguments of a function applied on its own
    output            \* Option: what that function returned

vars ==
    <<config, env, fs, fs0, logger, pc, child, stdout_pipe, stderr_pipe,
      build_success, has_errors, captured_stderr, exit_code, ret, err,
      printed, log_calls, decoded, finalize_calls, input, output>>

runVars ==
    <<child, stdout_pipe, stderr_pipe, build_success, has_errors,
      captured_stderr, exit_code, ret, err, printed, decoded>>

NotSpawned ==
    [state |-> "none", pending |-> "none", nOut |-> 0, nErr |-> 0,
     status |-> None, reaped |-> FALSE]

InitCommon ==
    /\ fs0 \in FileSystems
    /\ child = NotSpawned
    /\ stdout_pipe = <<>>
    /\ stderr_pipe = <<>>
    /\ build_success = None
    /\ has_errors = FALSE
    /\ captured_stderr = <<>>
    /\ exit_code = None
    /\ ret = None
    /\ err = None
    /\ printed = <<>>
    /\ log_calls = <<>>
    /\ decoded = <<>>
    /\ finalize_calls = <<>>

Call(site, text, ok) == [site |-> site, text |-> text, ok |-> ok]
Out(site, text) == [site |-> site, text |-> text]

\* ------------------------------------------------- a Logger used on its own
\* A Logger reads log_on_success and log_color only; the other settings are
\* those of the tests' create_test_config.
LoggerConfigs ==
    {c \in Configs : /\ c.terminal_color = "Auto"
                     /\ ~c.include_warnings
                     /\ ~c.show_build_output
                     /\ ~c.quiet}

LoggerInit ==
    /\ InitCommon
    /\ config \in LoggerConfigs
    /\ env = Env(None, None, None, FALSE)
    /\ fs = Logger_new(fs0).fs
    /\ logger = Logger_new(fs0).logger
    /\ pc = "logger"
    /\ input = None
    /\ output = None

LoggerLogError ==
    /\ pc = "logger"
    /\ Len(log_calls) < MaxLogCalls
    /\ \E text \in Texts, fault \in Faults(fs, logger) :
          LET r == log_error(fs, logger, config, text, fault)
          IN  /\ fs' = r.fs
              /\ logger' = r.logger
              /\ log_calls' = Append(log_calls, Call(0, text, r.ok))
    /\ UNCHANGED <<input, output, config, env, fs0, pc, runVars, finalize_calls>>

LoggerFinalize ==
    /\ pc = "logger"
    /\ \E b \in BOOLEAN :
          /\ fs' = finalize(fs, logger, config, b)
          /\ finalize_calls' = Append(finalize_calls, b)
    /\ logger' = [logger EXCEPT !.file = "None"]
    /\ pc' = "logger_finalized"
    /\ UNCHANGED <<input, output, config, env, fs0, runVars, log_calls>>

LoggerNext == LoggerLogError \/ LoggerFinalize

LoggerSpec == LoggerInit /\ [][LoggerNext]_vars

\* ------------------------------------------------------- the cargo process
PendingOps(nOut, nErr) ==
    (IF nOut < MaxOut THEN {"out"} ELSE {})
    \cup (IF nErr < MaxErr THEN {"err"} ELSE {})
    \cup {"exit"}

Running == child.state = "running" /\ pc \notin {"done", "aborted"}

ChildWriteStdout ==
    /\ Running
    /\ child.pending = "out"
    /\ Len(stdout_pipe) < OutCap
    /\ \E line \in StdoutLines, next \in PendingOps(child.nOut + 1, child.nErr) :
          /\ stdout_pipe' = Append(stdout_pipe, line)
          /\ child' = [child EXCEPT !.nOut = @ + 1, !.pending = next]
    /\ UNCHANGED <<input, output, config, env, fs, fs0, logger, pc, stderr_pipe, build_success,
                   has_errors, captured_stderr, exit_code, ret, err, printed,
                   log_calls, decoded, finalize_calls>>

\* With show_build_output the child's stderr is the wrapper's own stderr:
\* the write never blocks and the wrapper never sees the line.
ChildWriteStderr ==
    /\ Running
    /\ child.pending = "err"
    /\ config.show_build_output \/ Len(stderr_pipe) < ErrCap
    /\ \E line \in StderrLines(child.nErr + 1), next \in PendingOps(child.nOut, child.nErr + 1) :
          /\ stderr_pipe' = IF config.show_build_output THEN stderr_pipe
                            ELSE Append(stderr_pipe, line)
          /\ child' = [child EXCEPT !.nErr = @ + 1, !.pending = next]
    /\ UNCHANGED <<input, output, config, env, fs, fs0, logger, pc, stdout_pipe, build_success,
                   has_errors, captured_stderr, exit_code, ret, err, printed,
                   log_calls, decoded, finalize_calls>>

ChildExit ==
    /\ Running
    /\ child.pending = "exit"
    /\ \E status \in ExitStatuses :
          child' = [child EXCEPT !.state = "exited", !.status = status]
    /\ UNCHANGED <<input, output, config, env, fs, fs0, logger, pc, stdout_pipe, stderr_pipe,
                   build_success, has_errors, captured_stderr, exit_code, ret,
                   err, printed, log_calls, decoded, finalize_calls>>

\* ------------------------------------------------------ runner.rs: run_build
Banner(site) ==
    CASE site = 33 -> <<"cargo-builder: Starting build...">>
      [] site = 101 -> <<"Build failed; details in log file">>
      [] site = 111 -> <<"cargo-builder: Build completed successfully">>
      [] site = 113 -> <<"cargo-builder: Build failed with errors">>
      [] site = 115 -> <<"cargo-builder: Error details written to">>

\* The settings of a run: every combination of the four flags, and every
\* value of each colour policy (format_for_terminal reads terminal_color only
\* and format_for_log reads log_color only, so the policies are not crossed).
ColorPairs == {<<"Never", "Always">>, <<"Always", "Never">>, <<"Auto", "Auto">>}
RunConfigs == {c \in Configs : <<c.terminal_color, c.log_color>> \in ColorPairs}

\* The faults a run is made to meet in log_error: none, one before the file
\* is created, one after.
RunFaults(f, lg) == Faults(f, lg) \cap {"none", "open", "body"}

Init ==
    /\ InitCommon
    /\ fs0.dir
    /\ fs = fs0
    /\ logger = NewLogger
    /\ config \in RunConfigs
    /\ env \in Envs(config)
    /\ pc = "start"
    /\ input = None
    /\ output = None

\* Lines 24-50: spawn the child and construct the Logger.
Spawn ==
    /\ pc = "start"
    /\ printed' = IF ~config.quiet THEN Append(printed, Out(33, Banner(33)))
                  ELSE printed
    /\ \E next \in PendingOps(0, 0) :
          child' = [NotSpawned EXCEPT !.state = "running", !.pending = next]
    /\ fs' = Logger_new(fs).fs
    /\ logger' = Logger_new(fs).logger
    /\ pc' = "stdout"
    /\ UNCHANGED <<input, output, config, env, fs0, stdout_pipe, stderr_pipe, build_success,
                   has_errors, captured_stderr, exit_code, ret, err, log_calls,
                   decoded, finalize_calls>>

\* A log_error call from run_build at `site`: on Err the `?` returns from
\* run_build at once, on Ok run_build goes on at `goto`.
LogFrom(site, text, goto) ==
    \E fault \in RunFaults(fs, logger) :
        LET r == log_error(fs, logger, config, text, fault)
        IN  /\ fs' = r.fs
            /\ logger' = r.logger
            /\ log_calls' = Append(log_calls, Call(site, text, r.ok))
            /\ pc' = IF r.ok THEN goto ELSE "aborted"
            /\ err' = IF r.ok THEN err ELSE Some("log_error")

\* Lines 54-81: one iteration of the stdout loop.
ReadStdoutLine ==
    /\ pc = "stdout"
    /\ stdout_pipe # <<>>
    /\ stdout_pipe' = Tail(stdout_pipe)
    /\ LET line == Head(stdout_pipe)
           m == parse_cargo_message(line)
       IN  IF line.kind = "invalid"
           THEN /\ pc' = "aborted"
                /\ err' = Some("Failed to read stdout line")
                /\ UNCHANGED <<fs, logger, build_success, has_errors, printed,
                               log_calls, decoded>>
           ELSE IF m.tag = "Err"
           THEN /\ pc' = "aborted"
                /\ err' = Some("Missing 'message' field in compiler-message")
                /\ UNCHANGED <<fs, logger, build_success, has_errors, printed,
                               log_calls, decoded>>
           ELSE IF m.tag = "CompilerMessage"
           THEN LET r == Route(m.level, config)
                IN  /\ decoded' = Append(decoded, m)
                    /\ has_errors' = (has_errors \/ r.error)
                    /\ printed' =
                          IF r.print
                          THEN Append(printed,
                                      Out(IF m.level = "error" THEN 63 ELSE 68,
                                          format_for_terminal(m.rendered, config, env)))
                          ELSE printed
                    /\ IF r.log
                       THEN LogFrom(IF m.level = "error" THEN 64 ELSE 70,
                                    m.rendered, "stdout")
                       ELSE UNCHANGED <<fs, logger, log_calls, pc, err>>
                    /\ UNCHANGED build_success
           ELSE IF m.tag = "BuildFinished"
           THEN /\ decoded' = Append(decoded, m)
                /\ build_success' = RecordBuildFinished(build_success, m.success)
                /\ UNCHANGED <<fs, logger, has_errors, printed, log_calls, pc, err>>
           ELSE UNCHANGED <<fs, logger, build_success, has_errors, printed,
                            log_calls, decoded, pc, err>>
    /\ UNCHANGED <<input, output, config, env, fs0, child, stderr_pipe, captured_stderr,
                   exit_code, ret, finalize_calls>>

\* End of stream on stdout: the child has exited and the pipe is drained.
StdoutEof ==
    /\ pc = "stdout"
    /\ stdout_pipe = <<>>
    /\ child.state = "exited"
    /\ pc' = IF ~config.show_build_output THEN "stderr" ELSE "wait"
    /\ UNCHANGED <<input, output, config, env, fs, fs0, logger, child, stdout_pipe, stderr_pipe,
                   build_success, has_errors, captured_stderr, exit_code, ret,
                   err, printed, log_calls, decoded, finalize_calls>>

\* Lines 84-90: one iteration of the stderr loop.
ReadStderrLine ==
    /\ pc = "stderr"
    /\ stderr_pipe # <<>>
    /\ stderr_pipe' = Tail(stderr_pipe)
    /\ IF Head(stderr_pipe) = InvalidLine
       THEN /\ pc' = "aborted"
            /\ err' = Some("Failed to read stderr line")
            /\ UNCHANGED captured_stderr
       ELSE /\ captured_stderr' = Append(captured_stderr, Head(stderr_pipe))
            /\ UNCHANGED <<pc, err>>
    /\ UNCHANGED <<input, output, config, env, fs, fs0, logger, child, stdout_pipe,
                   build_success, has_errors, exit_code, ret, printed,
                   log_calls, decoded, finalize_calls>>

StderrEof ==
    /\ pc = "stderr"
    /\ stderr_pipe = <<>>
    /\ child.state = "exited"
    /\ pc' = "wait"
    /\ UNCHANGED <<input, output, config, env, fs, fs0, logger, child, stdout_pipe, stderr_pipe,
                   build_success, has_errors, captured_stderr, exit_code, ret,
                   err, printed, log_calls, decoded, finalize_calls>>

\* Lines 92-95: child.wait() returns once the child has exited.
Wait ==
    /\ pc = "wait"
    /\ child.state = "exited"
    /\ child' = [child EXCEPT !.reaped = TRUE]
    /\ exit_code' = Some(ExitCode(child.status))
    /\ pc' = "fallback"
    /\ UNCHANGED <<input, output, config, env, fs, fs0, logger, stdout_pipe, stderr_pipe,
                   build_success, has_errors, captured_stderr, ret, err,
                   printed, log_calls, decoded, finalize_calls>>

final_success == FinalSuccess(build_success, Unwrap(exit_code))

\* Lines 96-104.
Fallback ==
    /\ pc = "fallback"
    /\ IF NeedFallback(final_success, has_errors, captured_stderr)
       THEN /\ printed' = Append(printed, Out(101, Banner(101)))
            /\ LogFrom(102, Join(captured_stderr), "finalize")
            /\ has_errors' = (has_errors \/ pc' = "finalize")
       ELSE /\ pc' = "finalize"
            /\ UNCHANGED <<fs, logger, log_calls, err, printed, has_errors>>
    /\ UNCHANGED <<input, output, config, env, fs0, child, stdout_pipe, stderr_pipe,
                   build_success, captured_stderr, exit_code, ret, decoded,
                   finalize_calls>>

\* Lines 107-120.
EndBanners(ok, errors) ==
    IF ok THEN <<Out(111, Banner(111))>>
    ELSE <<Out(113, Banner(113))>>
         \o (IF errors THEN <<Out(115, Banner(115))>> ELSE <<>>)

Finalize ==
    /\ pc = "finalize"
    /\ LET arg == FinalizeArg(final_success, has_errors)
       IN  /\ fs' = finalize(fs, logger, config, arg)
           /\ finalize_calls' = Append(finalize_calls, arg)
           /\ printed' = IF ~config.quiet
                         THEN printed \o EndBanners(arg, has_errors)
                         ELSE printed
    /\ logger' = [logger EXCEPT !.file = "None"]
    /\ ret' = exit_code
    /\ pc' = "done"
    /\ UNCHANGED <<input, output, config, env, fs0, child, stdout_pipe, stderr_pipe,
                   build_success, has_errors, captured_stderr, exit_code, err,
                   log_calls, decoded>>

Next ==
    \/ Spawn
    \/ ChildWriteStdout
    \/ ChildWriteStderr
    \/ ChildExit
    \/ ReadStdoutLine
    \/ StdoutEof
    \/ ReadStderrLine
    \/ StderrEof
    \/ Wait
    \/ Fallback
    \/ Finalize

Spec == Init /\ [][Next]_vars

\* ------------------------------------------------- main.rs: the arguments
tool_flags_with_values == {"--log", "--log-color", "--terminal-color"}
tool_boolean_flags ==
    {"--log-on-success", "--include-warnings", "--show-build-output",
     "--quiet", "-q", "--help", "-h", "--version", "-V"}

\* The while loop of separate_arguments from index i on.
RECURSIVE SeparateFrom(_, _, _, _)
SeparateFrom(args, i, tool_args, cargo_args) ==
    IF i > Len(args) THEN [tool_args |-> tool_args, cargo_args |-> cargo_args]
    ELSE LET arg == args[i]
         IN  IF arg = "--"
             THEN [tool_args |-> tool_args,
                   cargo_args |-> cargo_args \o SubSeq(args, i + 1, Len(args))]
             ELSE IF arg \in tool_boolean_flags
             THEN SeparateFrom(args, i + 1, Append(tool_args, arg), cargo_args)
             ELSE IF arg \in tool_flags_with_values
             THEN IF i + 1 <= Len(args)
                  THEN SeparateFrom(args, i + 2,
                                    Append(Append(tool_args, arg), args[i + 1]),
                                    cargo_args)
                  ELSE SeparateFrom(args, i + 1,
                                    Append(Append(tool_args, arg), arg), cargo_args)
             ELSE SeparateFrom(args, i + 1, tool_args, Append(cargo_args, arg))

separate_arguments(args) == SeparateFrom(args, 1, <<>>, <<>>)

\* run_build, lines 12-19: the arguments of the cargo command.
CargoCommand(cargo_args) ==
    <<"build", "--message-format=json-diagnostic-rendered-ansi">> \o cargo_args

\* ------------------------------------------- functions applied on their own
\* The settings of the tests' create_test_config.
TestConfig ==
    [log_on_success |-> FALSE, log_color |-> "Never", terminal_color |-> "Auto",
     include_warnings |-> FALSE, show_build_output |-> FALSE, quiet |-> FALSE]

\* Texts over an escape, a bracket, a parameter, a terminator and a letter.
TextAtoms == {ESC, "[", "1", "m", "x"}
TextsUpTo(n) == UNION {[1..k -> TextAtoms] : k \in 0..n}

\* Every environment should_use_color tells apart.
AllEnvs ==
    [NO_COLOR : {None, Some(""), Some("1"), Some(NotUnicode)},
     CARGO_TERM_COLOR : {None, Some("always"), Some("never"), Some("auto"),
                         Some("yes"), Some(NotUnicode)},
     TERM : {None, Some("dumb"), Some("xterm"), Some(NotUnicode)},
     tty : BOOLEAN]

RustflagsValues == {None, Some(""), Some("-Cdebuginfo=0"), Some(NotUnicode)}

\* Command lines over the separator, a boolean flag and a value-taking flag
\* of the wrapper, a flag of cargo and a plain word.
ArgAtoms == {"--", "--quiet", "--log", "--release", "x"}
ArgsUpTo(n) == UNION {[1..k -> ArgAtoms] : k \in 0..n}

PureInit ==
    /\ InitCommon
    /\ fs0 = [dir |-> TRUE, exists |-> FALSE, content |-> <<>>]
    /\ fs = fs0
    /\ logger = NewLogger
    /\ pc = "call"
    /\ output = None
    /\ \/ /\ input \in [fn : {"strip_ansi_codes"}, text : TextsUpTo(MaxText)]
          /\ config = TestConfig
          /\ env = ColorEnv
       \/ /\ input = [fn |-> "should_use_color"]
          /\ config = TestConfig
          /\ env \in AllEnvs
       \/ /\ input \in [fn : {"format_for_log"}, text : TextsUpTo(MaxText)]
          /\ config \in {[TestConfig EXCEPT !.log_color = c] : c \in ColorChoice}
          /\ env \in {ColorEnv, NoColorEnv}
       \/ /\ input \in [fn : {"setup_environment"}, RUSTFLAGS : RustflagsValues]
          /\ config \in {c \in Configs : /\ ~c.log_on_success /\ c.log_color = "Never"
                                         /\ ~c.show_build_output /\ ~c.quiet}
          /\ env \in {ColorEnv, Env(None, Some("never"), None, FALSE)}
       \/ /\ input \in [fn : {"separate_arguments"}, args : ArgsUpTo(MaxArgs)]
          /\ config = TestConfig
          /\ env = ColorEnv

Return(value) ==
    /\ output' = Some(value)
    /\ pc' = "returned"
    /\ UNCHANGED <<input, config, env, fs, fs0, logger, runVars, log_calls,
                   finalize_calls>>

CallStrip ==
    /\ pc = "call" /\ input.fn = "strip_ansi_codes"
    /\ Return(strip_ansi_codes(input.text))

CallShouldUseColor ==
    /\ pc = "call" /\ input.fn = "should_use_color"
    /\ Return(should_use_color(env))

CallFormatForLog ==
    /\ pc = "call" /\ input.fn = "format_for_log"
    /\ Return(format_for_log(input.text, config))

CallSetupEnvironment ==
    /\ pc = "call" /\ input.fn = "setup_environment"
    /\ Return(setup_environment(NoEnvs, config, input.RUSTFLAGS))

\* parse_args and run_build: the two lists, and the cargo command built from
\* the second.
CallSeparateArguments ==
    /\ pc = "call" /\ input.fn = "separate_arguments"
    /\ LET r == separate_arguments(input.args)
       IN  Return([tool_args |-> r.tool_args, cargo_args |-> r.cargo_args,
                   command |-> CargoCommand(r.cargo_args)])

PureNext ==
    \/ CallSeparateArguments
    \/ CallStrip
    \/ CallShouldUseColor
    \/ CallFormatForLog
    \/ CallSetupEnvironment

PureSpec == PureInit /\ [][PureNext]_vars

\* ================================================================== claims
IsError(m) == m.tag = "CompilerMessage" /\ m.level = "error"
IsWarning(m) == m.tag = "CompilerMessage" /\ m.level = "warning"
IsFinished(m) == m.tag = "BuildFinished"
At63(o) == o.site = 63
At68(o) == o.site = 68
At64(c) == c.site = 64
At70(c) == c.site = 70
At102(c) == c.site = 102
IsOk(c) == c.ok
TextsOf(seq) == [i \in 1..Len(seq) |-> seq[i].text]
Rendered(seq) == [i \in 1..Len(seq) |-> seq[i].rendered]
ForTerminal(seq) ==
    [i \in 1..Len(seq) |-> format_for_terminal(seq[i].rendered, config, env)]
EndsWith(seq, suffix) ==
    /\ Len(suffix) <= Len(seq)
    /\ SubSeq(seq, Len(seq) - Len(suffix) + 1, Len(seq)) = suffix
Ended == pc \in {"done", "aborted"}

\* ---- C1
\* C1: with stderr captured, run_build drains the two pipes concurrently, so
\* the child never stays blocked on a full pipe and run_build reaches the
\* wait and finalize: as long as run_build has not returned, the child or
\* run_build can take a step.
C1_DrainsWithoutStall ==
    (~config.show_build_output /\ ~Ended) => ENABLED Next

\* ---- C2
\* C2: Logger::finalize(b) deletes the file if and only if b is true,
\* keep-on-success is false and at least one log_error call has returned Ok;
\* in every other case the file system is left exactly as it was.
C2_FinalizeDeletesIff ==
    [][(pc = "logger" /\ pc' = "logger_finalized") =>
         IF /\ finalize_calls'[Len(finalize_calls')]
            /\ ~config.log_on_success
            /\ SelectSeq(log_calls, IsOk) # <<>>
         THEN fs.exists /\ ~fs'.exists
         ELSE fs' = fs]_vars

C2_Witness ==
    /\ pc = "logger_finalized"
    /\ finalize_calls = <<TRUE>>
    /\ ~config.log_on_success
    /\ Len(log_calls) = 1
    /\ log_calls[1].ok
    /\ ~fs.exists

\* ---- C3
\* C3: when run_build returns normally, the log file is gone if the final
\* result is success, no fallback block was logged and keep-on-success is
\* false; otherwise a file that was at the path, or was written in the run,
\* is still there.
C3_DeletedOnSuccess ==
    pc = "done" =>
        IF /\ final_success
           /\ SelectSeq(log_calls, At102) = <<>>
           /\ ~config.log_on_success
        THEN ~fs.exists
        ELSE (fs0.exists \/ SelectSeq(log_calls, IsOk) # <<>>) => fs.exists

\* ---- C4
FallbackDue ==
    /\ ~final_success
    /\ SelectSeq(decoded, IsError) = <<>>
    /\ captured_stderr # <<>>
\* C4: once the fallback step has run, the log_error calls made by it are
\* exactly one call with the captured stderr lines joined by newlines if the
\* final result is failure, no error-level message was routed and stderr was
\* captured non-empty, and none otherwise; in the first case has_errors is
\* set, and after finalize the file exists and ends with that block.
C4_Fallback ==
    /\ pc \in {"finalize", "done"} =>
          /\ SelectSeq(log_calls, At102) =
                IF FallbackDue THEN <<Call(102, Join(captured_stderr), TRUE)>>
                ELSE <<>>
          /\ FallbackDue => has_errors
    /\ (pc = "done" /\ FallbackDue) =>
          /\ fs.exists
          /\ EndsWith(fs.content,
                      format_for_log(Join(captured_stderr), config) \o <<NL, NL>>)
    /\ pc \in {"start", "stdout", "stderr", "wait", "fallback"} =>
          SelectSeq(log_calls, At102) = <<>>

C4_Witness ==
    /\ pc = "done"
    /\ FallbackDue
    /\ Len(captured_stderr) = 2
    /\ child.status = Some(101)
    /\ decoded = <<>>
    /\ fs.exists

\* ---- C5
\* C5: once the child has been waited for, the final build result is the
\* success flag of the last BuildFinished decoded from stdout, or, if none
\* was decoded, whether the child's exit code is zero.
C5_FinalSuccess ==
    pc \in {"fallback", "finalize", "done"} =>
        LET finished == SelectSeq(decoded, IsFinished)
        IN  final_success =
               IF finished # <<>> THEN finished[Len(finished)].success
               ELSE child.status = Some(0)

C5_Witness ==
    /\ pc = "done"
    /\ decoded = <<BuildFinished(TRUE), BuildFinished(FALSE)>>
    /\ child.status = Some(0)
    /\ ~final_success

\* ---- C6
\* C6: when run_build returns normally it returns the child's exit code, or
\* 1 if the child has none (killed by a signal), whatever was decoded.
C6_ReturnsExitCode ==
    /\ pc = "done" =>
          ret = Some(IF child.status = None THEN 1 ELSE Unwrap(child.status))
    /\ pc # "done" => ret = None

C6_Witness ==
    /\ pc = "done"
    /\ child.status = Some(101)
    /\ build_success = Some(TRUE)
    /\ ~has_errors
    /\ ret = Some(101)

\* ---- C7
\* C7: the error-level messages decoded so far are, in stream order, exactly
\* the texts printed through the terminal formatter at the error arm and
\* exactly the texts passed to log_error at the error arm, and if there is
\* one has_errors is set, under every setting.
C7_ErrorsRouted ==
    LET errors == SelectSeq(decoded, IsError)
    IN  /\ TextsOf(SelectSeq(printed, At63)) = ForTerminal(errors)
        /\ TextsOf(SelectSeq(log_calls, At64)) = Rendered(errors)
        /\ errors # <<>> => has_errors

C7_Witness ==
    /\ decoded = <<CompilerMessage("error", TextA), CompilerMessage("error", TextB)>>
    /\ config.quiet /\ config.show_build_output /\ ~config.include_warnings
    /\ Len(SelectSeq(log_calls, IsOk)) = 2
    /\ Len(SelectSeq(printed, At63)) = 2

\* ---- C8
FallbackLogged == \E i \in 1..Len(log_calls) : At102(log_calls[i]) /\ IsOk(log_calls[i])
\* C8: the warning-level messages decoded so far are printed exactly if
\* include-warnings is on and passed to log_error exactly if include-warnings
\* and keep-on-success are both on; nothing else is printed or logged by the
\* stdout loop but the error-level messages; and until the fallback step
\* has_errors is set only by an error-level message.
C8_WarningsRouted ==
    LET warnings == SelectSeq(decoded, IsWarning)
        errors == SelectSeq(decoded, IsError)
    IN  /\ TextsOf(SelectSeq(printed, At68)) =
              IF config.include_warnings THEN ForTerminal(warnings) ELSE <<>>
        /\ TextsOf(SelectSeq(log_calls, At70)) =
              IF config.include_warnings /\ config.log_on_success
              THEN Rendered(warnings) ELSE <<>>
        /\ Len(SelectSeq(printed, At63)) = Len(errors)
        /\ Len(SelectSeq(log_calls, At64)) = Len(errors)
        /\ has_errors = (errors # <<>> \/ FallbackLogged)

C8_Witness ==
    /\ decoded = <<CompilerMessage("warning", TextA), CompilerMessage("unknown", TextB)>>
    /\ config.include_warnings
    /\ ~config.log_on_success
    /\ Len(printed) >= 1
    /\ printed[Len(printed)].site = 68
    /\ log_calls = <<>>
    /\ ~has_errors

\* ---- C9
\* C9 as stated: once the Logger is constructed and until the first log_error
\* call there is no file at the log path.
C9_NoFileBeforeFirstError == (pc # "start" /\ log_calls = <<>>) => ~fs.exists

\* C9, amended: until the first log_error call the log path is exactly as it
\* was when the run started (absent, or the file an earlier run left), and a
\* Logger that holds an open file has a file at the path.
C9_UntouchedBeforeFirstError ==
    /\ log_calls = <<>> => (fs = fs0 /\ logger.file = "None")
    /\ logger.file = "Some" => fs.exists

C9_Witness ==
    /\ pc = "stdout"
    /\ decoded # <<>>
    /\ log_calls = <<>>
    /\ fs.exists

\* ---- C10
\* C10: after finalize on a Logger on which log_error was never called, the
\* log path is exactly as it was before the Logger was constructed.
C10_FinalizeAloneTouchesNothing ==
    (pc = "logger_finalized" /\ log_calls = <<>>) => fs = fs0

C10_Witness ==
    /\ pc = "logger_finalized"
    /\ log_calls = <<>>
    /\ finalize_calls = <<TRUE>>
    /\ ~config.log_on_success
    /\ fs.exists

\* ---- C11
Header == <<HeaderTitle, NL, HeaderRule, NL, NL>>
RECURSIVE Blocks(_, _)
Blocks(calls, cfg) ==
    IF calls = <<>> THEN <<>>
    ELSE format_for_log(calls[1].text, cfg) \o <<NL, NL>> \o Blocks(Tail(calls), cfg)
AllOk(calls) == \A i \in 1..Len(calls) : calls[i].ok
\* C11: on a Logger all of whose n >= 1 log_error calls returned Ok (and not
\* yet finalized), the file exists and its content is exactly the two header
\* lines and a blank line, once, then for each call in order the
\* log-formatted text and one blank line; nothing of a file that was at the
\* path before remains.
C11_LogContent ==
    (pc = "logger" /\ log_calls # <<>> /\ AllOk(log_calls)) =>
        /\ fs.exists
        /\ fs.content = Header \o Blocks(log_calls, config)

C11_Witness ==
    /\ pc = "logger"
    /\ fs0.exists /\ fs0.content = OldLog
    /\ Len(log_calls) = 3
    /\ AllOk(log_calls)
    /\ log_calls[1].text = TextA /\ log_calls[2].text = TextB
    /\ config.log_color = "Never"
    /\ fs.content = Header \o <<"a", NL, NL>> \o <<"b", ESC, "[", "2", "J", NL, NL>>
                     \o <<"a", NL, NL>>

\* ---- C12
MissingMessage == Some("Missing 'message' field in compiler-message")
AbortedOnMissingMessage ==
    err = MissingMessage =>
        /\ pc = "aborted"
        /\ ret = None
        /\ finalize_calls = <<>>
        /\ SelectSeq(log_calls, At102) = <<>>
\* C12: reading a stdout line with reason "compiler-message" and no message
\* object makes run_build return the decode error at that line, leaving the
\* log path, the Logger and everything routed so far as they are; after
\* that nothing more is decoded, printed or logged, the fallback and finalize
\* are never performed, and the log path is never touched again.
C12_MissingMessageFatal ==
    [][/\ (pc = "stdout" /\ stdout_pipe # <<>> /\ Head(stdout_pipe) = LNoMessage
            /\ stdout_pipe' = Tail(stdout_pipe)) =>
              /\ pc' = "aborted"
              /\ err' = MissingMessage
              /\ UNCHANGED <<fs, logger, decoded, printed, log_calls,
                             finalize_calls, has_errors, build_success>>
       /\ err = MissingMessage =>
              UNCHANGED <<fs, logger, decoded, printed, log_calls,
                          finalize_calls, has_errors, build_success, pc, err,
                          ret, stdout_pipe, exit_code>>
       /\ AbortedOnMissingMessage
       /\ AbortedOnMissingMessage']_vars

C12_Witness ==
    /\ err = MissingMessage
    /\ pc = "aborted"
    /\ decoded = <<CompilerMessage("error", TextA)>>
    /\ log_calls = <<Call(64, TextA, TRUE)>>
    /\ fs.exists /\ fs.content = Header \o Blocks(log_calls, config)
    /\ finalize_calls = <<>>
    /\ ~child.reaped

\* ---- C14
ReadsLine(l) ==
    /\ pc = "stdout"
    /\ stdout_pipe # <<>>
    /\ Head(stdout_pipe) = l
    /\ stdout_pipe' = Tail(stdout_pipe)
NothingRouted ==
    /\ pc' = "stdout"
    /\ UNCHANGED <<err, ret, fs, logger, decoded, printed, log_calls, has_errors,
                   build_success, captured_stderr, exit_code, finalize_calls>>
\* C14: a stdout line that is blank, is not JSON, or is JSON whose reason is
\* missing, not a string or not one of the two known reasons decodes to
\* Ok(None), and reading it changes nothing of the run but the position in
\* the stream: no error is returned, nothing is printed or logged, and
\* has_errors and build_success stay as they are.
C14_IgnoredLines ==
    [][\A l \in IgnoredLines :
          /\ parse_cargo_message(l) = ParseNone
          /\ ReadsLine(l) => NothingRouted]_vars

C14_Witness ==
    /\ pc = "stdout"
    /\ child.nOut = 2
    /\ stdout_pipe = <<LNoReason>>
    /\ decoded = <<BuildFinished(FALSE)>>
    /\ build_success = Some(FALSE)
    /\ printed = <<>>
    /\ log_calls = <<>>
    /\ ~has_errors

\* ---- C15
FinishedLines == {LFinishedOk, LFinishedFail, LFinishedBare, LFinishedNum}
SuccessField(l) ==
    IF IsSome(l.success) /\ Unwrap(l.success).t = "bool" THEN Unwrap(l.success).v
    ELSE FALSE
\* C15: a stdout line with reason "build-finished" decodes to BuildFinished
\* whose flag is the line's boolean success field, and false when the line
\* has none; reading it from the stream records exactly that.
C15_BuildFinished ==
    [][\A l \in FinishedLines :
          /\ parse_cargo_message(l) = BuildFinished(SuccessField(l))
          /\ ReadsLine(l) =>
                /\ decoded' = Append(decoded, BuildFinished(SuccessField(l)))
                /\ build_success' = Some(SuccessField(l))]_vars

C15_Witness ==
    /\ pc = "stdout"
    /\ child.nOut = 2
    /\ stdout_pipe = <<LFinishedBare>>
    /\ decoded = <<BuildFinished(TRUE)>>
    /\ build_success = Some(TRUE)

\* ---- C16
TextLines == {LErrA, LErrB, LWarnA, LOtherB}
LevelField(l) ==
    LET level == Unwrap(l.message).level
    IN  IF IsSome(level) THEN Unwrap(level).v ELSE "unknown"
RenderedField(l) == Unwrap(Unwrap(l.message).rendered).v
\* C16: a compiler-message whose rendered text is empty, null or absent
\* decodes to nothing whatever its level, and reading it prints nothing, logs
\* nothing and leaves has_errors as it is; one with a non-empty text decodes
\* to a CompilerMessage with the line's level ("unknown" when it has none)
\* and exactly that text.
C16_EmptyRenderedDropped ==
    [][/\ \A l \in NoTextLines :
             /\ parse_cargo_message(l) = ParseNone
             /\ ReadsLine(l) => NothingRouted
       /\ \A l \in TextLines :
             /\ parse_cargo_message(l) = CompilerMessage(LevelField(l), RenderedField(l))
             /\ ReadsLine(l) =>
                   decoded' = Append(decoded, CompilerMessage(LevelField(l), RenderedField(l)))]_vars

C16_Witness ==
    /\ pc = "stdout"
    /\ child.nOut = 2
    /\ stdout_pipe = <<LErrNull>>
    /\ decoded = <<CompilerMessage("unknown", TextB)>>
    /\ config.quiet /\ config.include_warnings
    /\ printed = <<>>
    /\ log_calls = <<>>
    /\ ~has_errors

\* ---- C17
ErrorOccurred == SelectSeq(decoded, IsError) # <<>> \/ FallbackLogged
FinalizedOnce ==
    /\ Len(finalize_calls) = IF pc = "done" THEN 1 ELSE 0
    /\ pc = "done" =>
          /\ stdout_pipe = <<>> /\ child.state = "exited"
          /\ ~config.show_build_output => stderr_pipe = <<>>
          /\ child.reaped /\ IsSome(exit_code)
          /\ finalize_calls[1] = (final_success /\ ~ErrorOccurred)
\* C17: a run of run_build that returns normally has called Logger::finalize
\* exactly once, and no other run has called it; the call is made after the
\* fallback step, with stdout at end of stream, the captured stderr drained
\* and the child waited for; its argument is (the final result is success
\* and no error occurred, an error-level message or a fallback block logged);
\* and once it is made, no log_error call follows.
C17_FinalizeOnceLast ==
    [][/\ FinalizedOnce
       /\ FinalizedOnce'
       /\ finalize_calls' # finalize_calls => (pc = "finalize" /\ pc' = "done")
       /\ pc' = "finalize" => pc \in {"fallback", "finalize"}
       /\ finalize_calls # <<>> => UNCHANGED <<log_calls, finalize_calls, fs>>]_vars

C17_Witness ==
    /\ pc = "done"
    /\ build_success = Some(TRUE)
    /\ child.status = Some(0)
    /\ decoded = <<CompilerMessage("error", TextB), BuildFinished(TRUE)>>
    /\ log_calls = <<Call(64, TextB, TRUE)>>
    /\ finalize_calls = <<FALSE>>

\* ---- C13
Returned(fn) == pc = "returned" /\ input.fn = fn
\* C13: stripping is idempotent: for every text t,
\* strip_ansi_codes(strip_ansi_codes(t)) = strip_ansi_codes(t), also when
\* removing one escape sequence makes the characters around it form another.
C13_StripIdempotent ==
    Returned("strip_ansi_codes") =>
        strip_ansi_codes(Unwrap(output)) = Unwrap(output)

\* ---- C18
IsUnicode(value) == ~IsSome(value) \/ Unwrap(value) # NotUnicode
ResolvedColor(e) ==
    IF IsSome(e.NO_COLOR) /\ Unwrap(e.NO_COLOR) # "" THEN FALSE
    ELSE IF IsSome(e.CARGO_TERM_COLOR)
         THEN CASE e.CARGO_TERM_COLOR = Some("always") -> TRUE
                [] e.CARGO_TERM_COLOR = Some("never") -> FALSE
                [] OTHER -> e.tty
    ELSE IF e.TERM = Some("dumb") THEN FALSE
    ELSE e.tty
\* C18: should_use_color returns false if NO_COLOR is set and not empty;
\* otherwise, if CARGO_TERM_COLOR is set, true for "always", false for
\* "never" and for any other value whether stderr is a terminal (TERM is not
\* looked at); otherwise false if TERM is "dumb"; otherwise whether stderr is
\* a terminal.
C18_ResolutionOrder ==
    Returned("should_use_color") => Unwrap(output) = ResolvedColor(env)

\* The same holds whenever the values of NO_COLOR and CARGO_TERM_COLOR are
\* valid Unicode.
C18_ResolutionOrderOnUnicode ==
    (Returned("should_use_color") /\ IsUnicode(env.NO_COLOR)
        /\ IsUnicode(env.CARGO_TERM_COLOR)) =>
        Unwrap(output) = ResolvedColor(env)

\* ---- C19
\* C19: format_for_log under Auto returns what it returns under Never, for
\* every text and whatever the environment says about colours; under Always
\* it returns the text unchanged.
C19_LogAutoIsNever ==
    Returned("format_for_log") =>
        /\ config.log_color = "Auto" =>
              Unwrap(output) =
                 format_for_log(input.text, [config EXCEPT !.log_color = "Never"])
        /\ config.log_color = "Always" => Unwrap(output) = input.text

C19_Witness ==
    /\ Returned("format_for_log")
    /\ config.log_color = "Auto"
    /\ should_use_color(env)
    /\ input.text = <<ESC, "[", "1", "m", "x", ESC>>
    /\ output = Some(<<"x", ESC>>)

\* ---- C20
SetRustflags(old) ==
    IF IsSome(old) /\ Unwrap(old) # ""
    THEN <<Unwrap(old), " ", "-Awarnings">>
    ELSE <<"-Awarnings">>
ChildEnvironment(cmd, old) ==
    /\ cmd["RUSTFLAGS"] =
          IF ~config.include_warnings THEN Some(SetRustflags(old)) ELSE None
    /\ cmd["CARGO_TERM_COLOR"] =
          CASE config.terminal_color = "Always" -> Some(<<"always">>)
            [] config.terminal_color = "Never" -> Some(<<"never">>)
            [] config.terminal_color = "Auto" -> None
    /\ \A name \in EnvNames \ {"RUSTFLAGS", "CARGO_TERM_COLOR"} : cmd[name] = None
\* C20: the child is given a RUSTFLAGS exactly if include-warnings is off,
\* and then the wrapper's RUSTFLAGS, if it has a non-empty one, followed by a
\* space and -Awarnings, else -Awarnings alone; it is given CARGO_TERM_COLOR
\* always or never exactly if the terminal colour policy is Always or Never;
\* it is given no other variable.
C20_ChildEnvironment ==
    Returned("setup_environment") => ChildEnvironment(Unwrap(output), input.RUSTFLAGS)

\* The same holds whenever the wrapper's RUSTFLAGS is valid Unicode.
C20_ChildEnvironmentOnUnicode ==
    (Returned("setup_environment") /\ IsUnicode(input.RUSTFLAGS)) =>
        ChildEnvironment(Unwrap(output), input.RUSTFLAGS)

\* ---- C21
LoggedOk == SelectSeq(log_calls, IsOk) # <<>>
\* C21: in every run of run_build in which a log_error call returned Ok, the
\* log file exists when run_build returns, normally or with an error; the
\* finalize call run_build makes never meets the three conditions of the
\* delete branch and leaves the log path as it is.
C21_LogKept ==
    [][/\ (Ended /\ LoggedOk) => fs.exists
       /\ (Ended' /\ LoggedOk') => fs'.exists
       /\ (pc = "finalize" /\ pc' = "done") =>
             /\ ~(finalize_calls'[1] /\ ~config.log_on_success /\ logger.has_written)
             /\ fs' = fs]_vars

C21_Witness ==
    /\ pc = "done"
    /\ ~config.log_on_success
    /\ decoded = <<CompilerMessage("error", TextA), BuildFinished(TRUE)>>
    /\ child.status = Some(0)
    /\ final_success
    /\ log_calls = <<Call(64, TextA, TRUE)>>
    /\ logger.has_written
    /\ fs.exists

\* ---- C22
\* C22: whenever run_build has returned after spawning the child, normally
\* or with an error, the child has exited and has been waited for.
C22_ChildReaped ==
    (Ended /\ child.state # "none") => (child.state = "exited" /\ child.reaped)

\* ---- C23
StartsWith(seq, prefix) ==
    Len(prefix) <= Len(seq) /\ SubSeq(seq, 1, Len(prefix)) = prefix
WrittenWithHeader ==
    /\ logger.has_written <=> LoggedOk
    /\ (logger.has_written /\ pc = "logger") =>
          (fs.exists /\ StartsWith(fs.content, Header))
\* C23: on a Logger whose log_error calls may each fail at creating the
\* directory, opening the file, a header line, the body or the separator,
\* has_written is true exactly when a call has returned Ok, a call that fails
\* leaves has_written as it was, and while has_written is true the file
\* starts with the two header lines and the blank line.
C23_HeaderComplete ==
    [][/\ WrittenWithHeader
       /\ WrittenWithHeader'
       /\ (Len(log_calls') > Len(log_calls) /\ ~log_calls'[Len(log_calls')].ok) =>
             logger'.has_written = logger.has_written]_vars

\* The first part alone holds: has_written is true exactly when a call has
\* returned Ok, and a call that fails leaves it as it was.
C23_WrittenIffOk ==
    [][/\ logger.has_written <=> LoggedOk
       /\ logger'.has_written <=> LoggedOk'
       /\ (Len(log_calls') > Len(log_calls) /\ ~log_calls'[Len(log_calls')].ok) =>
             logger'.has_written = logger.has_written]_vars

\* ---- C24
FirstSeparator(args) ==
    IF \E i \in 1..Len(args) : args[i] = "--"
    THEN CHOOSE i \in 1..Len(args) :
            args[i] = "--" /\ \A j \in 1..(i - 1) : args[j] # "--"
    ELSE Len(args) + 1
IsToolFlag(arg) == arg \in tool_boolean_flags \cup tool_flags_with_values
\* The tool list and the cargo list of args[i..n], none of them "--": tool
\* flags and the value after a value-taking flag in the first, the rest in
\* the second, each argument once and in order.
RECURSIVE Partition(_, _, _)
Partition(args, i, n) ==
    IF i > n THEN [tool |-> <<>>, cargo |-> <<>>]
    ELSE IF args[i] \in tool_flags_with_values /\ i + 1 <= n
    THEN LET rest == Partition(args, i + 2, n)
         IN  [tool |-> <<args[i], args[i + 1]>> \o rest.tool, cargo |-> rest.cargo]
    ELSE LET rest == Partition(args, i + 1, n)
         IN  IF IsToolFlag(args[i])
             THEN [tool |-> <<args[i]>> \o rest.tool, cargo |-> rest.cargo]
             ELSE [tool |-> rest.tool, cargo |-> <<args[i]>> \o rest.cargo]
Partitioned(args, out) ==
    LET k == FirstSeparator(args)
        before == Partition(args, 1, k - 1)
    IN  /\ out.tool_args = before.tool
        /\ out.cargo_args = before.cargo \o SubSeq(args, k + 1, Len(args))
        /\ Len(out.tool_args) + Len(out.cargo_args) =
              Len(args) - (IF k <= Len(args) THEN 1 ELSE 0)
        /\ out.command =
              <<"build", "--message-format=json-diagnostic-rendered-ansi">>
              \o out.cargo_args
\* C24: separate_arguments puts every argument before the first "--" once
\* into one of the two lists (tool flags and the value after a value-taking
\* tool flag into the tool list, everything else into the cargo list) and
\* every argument after it once into the cargo list, in order, dropping only
\* that "--"; the cargo command is build, the message-format flag and the
\* cargo list.
C24_Partition ==
    Returned("separate_arguments") => Partitioned(input.args, Unwrap(output))

\* The same holds for the command lines in which every value-taking tool
\* flag is followed by an argument other than "--".
ValuesGiven(args) ==
    \A i \in 1..Len(args) :
        args[i] \in tool_flags_with_values =>
            (i + 1 <= Len(args) /\ args[i + 1] # "--")
C24_PartitionWhenValuesGiven ==
    (Returned("separate_arguments") /\ ValuesGiven(input.args)) =>
        Partitioned(input.args, Unwrap(output))
====
